---- MODULE Spec2Model ----
(***************************************************************************)
(* The video generator backend (backend/server.py): the project store, the *)
(* output directory, the temporary directories of the render jobs and the  *)
(* request handlers.  The handlers are coroutines on one event loop: a     *)
(* step of a handler is one awaited storage operation, and the synchronous *)
(* render pipeline create_video_from_images occupies the loop from its     *)
(* first statement to its return, so no other handler steps meanwhile.     *)
(***************************************************************************)
EXTENDS Integers, Sequences, FiniteSets, TLC

\* ---------------------------------------------------------------- bounds
MaxRequests == 4      \* requests that arrive over a run
MaxImages   == 3      \* images in one upload

TempNames == 1..MaxRequests

\* ------------------------------------------------------- request inputs
ResolutionInputs == {"720p", "1080p"}
DurationInputs   == {30}
OpacityInputs    == {80}
UploadInputs     == {[i \in 1..n |-> i] : n \in 1..MaxImages}

\* Defaults of the VideoProject model.
DefaultDuration   == 30
DefaultOpacity    == 80
XfadeDuration     == 500     \* milliseconds
TargetWidth       == 1080
TargetHeight      == 1920
Fps               == 30
MaxDimension      == 1920    \* pixels; a larger upload is shrunk

\* The content types upload_images lets through.
AllowedContentTypes == {"image/jpeg", "image/png", "image/jpg"}

\* An UploadFile: the content type its part of the request declares, its bytes
\* (content names them), whether Image.open finds an image in the bytes, and
\* the larger of the width and the height of that image.
UploadFile(content_type, content, decodes, size) ==
    [content_type |-> content_type, content |-> content,
     decodes |-> decodes, size |-> size]

ImageFile(content) == UploadFile("image/jpeg", content, TRUE, MaxDimension)

Files(contents) == [i \in DOMAIN contents |-> ImageFile(contents[i])]

\* Uploads of images that are what they say and need no shrinking.
UploadFileInputs == {Files(f) : f \in UploadInputs}

VARIABLES
    db,          \* db.video_projects: project id -> document
    next_id,     \* project ids issued so far (uuid4 never repeats)
    outputs,     \* OUTPUT_DIR: output filename -> file
    tmp,         \* temporary directories: name -> the job that created it
    gen,         \* the generate_video calls: call -> locals and position
    running,     \* the call whose synchronous code occupies the event loop, 0 if none
    requests     \* requests that have arrived

vars == <<db, next_id, outputs, tmp, gen, running, requests>>

\* The ids a request may name: those issued so far, and 0 for one never issued.
ProjectIds == 0..next_id
\* The generate calls that have started.
Calls == DOMAIN gen

None == <<>>

\* ------------------------------------------------------------ the model
VideoProject(id, duration, logo_opacity, resolution) ==
    [id |-> id, name |-> "name", images |-> <<>>, duration |-> duration,
     music_file |-> None, logo_file |-> None, logo_opacity |-> logo_opacity,
     resolution |-> resolution, created_at |-> id, video_url |-> None,
     status |-> "draft"]

NoProject == [VideoProject(0, 0, 0, "") EXCEPT !.status = "none"]

Stored(id) == id \in DOMAIN db

OutputFilename_IdOnly(project_id, resolution) == <<project_id, "mp4">>

\* f"{project_id}_{resolution}.mp4" and f"/api/videos/{output_filename}"
OutputFilename(project_id, resolution) == <<project_id, resolution, "mp4">>
VideoUrl(output_filename) == <<"/api/videos/">> \o output_filename

\* update_one({"id": id}, {"$set": fields}): no document matched, nothing changes.
UpdateOne(id, doc) == IF Stored(id) THEN [db EXCEPT ![id] = doc] ELSE db

ProcessingUpdate_Skipped(doc) == doc

ProcessingUpdate_DropsImages(doc) == [doc EXCEPT !.status = "processing", !.images = <<>>]

ProcessingUpdate(doc) == [doc EXCEPT !.status = "processing"]

CompletedUpdate_NoUrl(doc, output_filename) == [doc EXCEPT !.status = "completed"]

CompletedUpdate(doc, output_filename) ==
    [doc EXCEPT !.video_url = VideoUrl(output_filename), !.status = "completed"]

FailedUpdate_Skipped(doc) == doc

FailedUpdate(doc) == [doc EXCEPT !.status = "failed"]

\* The JSON body of a response: message and video_url of the returned dict, or
\* the detail of the HTTPException raised; a key that is absent is empty here.
NoBody == [message |-> "", video_url |-> None, detail |-> <<>>]

ErrorBody(detail) == [NoBody EXCEPT !.detail = detail]

SuccessBody_NoUrl(output_filename) ==
    [NoBody EXCEPT !.message = "Video generated successfully"]

\* return {"message": ..., "video_url": f"/api/videos/{output_filename}"}
SuccessBody(output_filename) ==
    [NoBody EXCEPT !.message = "Video generated successfully",
                   !.video_url = VideoUrl(output_filename)]

\* f"Video generation failed: {str(e)}", e the HTTPException raised in the try
\* block, given by its status code and detail
FailureDetail(e) == <<"Video generation failed", ": ">> \o e

\* The locals of a generate_video call before its first statement.
IdleCall ==
    [pc |-> "idle", project_id |-> 0, project |-> NoProject,
     output_filename |-> None, temp_dir |-> 0, i |-> 0, video_clips |-> <<>>,
     rendered |-> <<>>, commands |-> <<>>, stream |-> None, error |-> None,
     response |-> 0, body |-> NoBody]

\* A call that has returned or raised: its locals are gone, its response stays.
\* The return or raise that follows the last awaited update is part of that step.
Done(project_id, response, body) ==
    [IdleCall EXCEPT !.pc = "done", !.project_id = project_id, !.response = response,
                     !.body = body]

Init ==
    /\ db = <<>>
    /\ next_id = 0
    /\ outputs = <<>>
    /\ tmp = <<>>
    /\ gen = <<>>
    /\ running = 0
    /\ requests = 0

\* A request arrives and its handler starts, between the steps of the others.
\* The handlers other than generate_video do their find_one and their one write
\* in a single step: a delete between the two leaves the same stored state as
\* the handler running after the delete.
Serve ==
    /\ running = 0
    /\ requests < MaxRequests
    /\ requests' = requests + 1

\* What a handler does with the store and the output directory, and the status
\* code it answers with.
Reply(code, new_db, new_outputs) == [code |-> code, db |-> new_db, outputs |-> new_outputs]

\* raise HTTPException(status_code=404): nothing was written
NotFound == Reply(404, db, outputs)

Handled(reply) ==
    /\ db' = reply.db
    /\ outputs' = reply.outputs
    /\ UNCHANGED <<next_id, tmp, gen, running>>

\* create_project
CreateProject(resolution) ==
    /\ Serve
    /\ next_id' = next_id + 1
    /\ db' = [id \in DOMAIN db \cup {next_id + 1} |->
                IF id = next_id + 1
                THEN VideoProject(id, DefaultDuration, DefaultOpacity, resolution)
                ELSE db[id]]
    /\ UNCHANGED <<outputs, tmp, gen, running>>

\* get_project
GetProjectReply(id) == IF ~Stored(id) THEN NotFound ELSE Reply(200, db, outputs)

GetProject(id) == Serve /\ Handled(GetProjectReply(id))

\* img.thumbnail and img.save as JPEG: other bytes than the uploaded ones,
\* bytes that no upload input has.
Thumbnail(content) == MaxImages + content

\* The bytes upload_images encodes and appends for one file.
B64Image(file) ==
    IF file.size > MaxDimension THEN Thumbnail(file.content) ELSE file.content

\* The files at which the loop of upload_images stops: a content type that is
\* not allowed raises HTTPException 400, bytes that are no image make
\* Image.open raise, which nothing catches.
Raising(files) ==
    {i \in DOMAIN files :
        files[i].content_type \notin AllowedContentTypes \/ ~files[i].decodes}

First(indices) == CHOOSE i \in indices : \A j \in indices : i <= j

\* upload_images
UploadImagesReply(id, files) ==
    IF ~Stored(id) THEN NotFound
    ELSE IF Raising(files) # {}
    THEN IF files[First(Raising(files))].content_type \notin AllowedContentTypes
         THEN Reply(400, db, outputs)
         ELSE Reply(500, db, outputs)
    ELSE Reply(200,
               UpdateOne(id, [db[id] EXCEPT
                                !.images = [i \in DOMAIN files |-> B64Image(files[i])]]),
               outputs)

UploadImages(id, files) == Serve /\ Handled(UploadImagesReply(id, files))

\* upload_logo
UploadLogoReply(id, file) ==
    IF ~Stored(id) THEN NotFound
    ELSE Reply(200, UpdateOne(id, [db[id] EXCEPT !.logo_file = file]), outputs)

UploadLogo(id, file) == Serve /\ Handled(UploadLogoReply(id, file))

\* upload_music
UploadMusicReply(id, file) ==
    IF ~Stored(id) THEN NotFound
    ELSE Reply(200, UpdateOne(id, [db[id] EXCEPT !.music_file = file]), outputs)

UploadMusic(id, file) == Serve /\ Handled(UploadMusicReply(id, file))

\* update_project_settings
UpdateProjectSettingsReply(id, duration, logo_opacity, resolution) ==
    IF ~Stored(id) THEN NotFound
    ELSE Reply(200, UpdateOne(id, [db[id] EXCEPT !.duration = duration,
                                                 !.logo_opacity = logo_opacity,
                                                 !.resolution = resolution]), outputs)

UpdateProjectSettings(id, duration, logo_opacity, resolution) ==
    Serve /\ Handled(UpdateProjectSettingsReply(id, duration, logo_opacity, resolution))

DeleteProjectReply_Idempotent(id) ==
    Reply(200, [p \in DOMAIN db \ {id} |-> db[p]],
          [f \in {g \in DOMAIN outputs : g[1] # id} |-> outputs[f]])

\* delete_project: delete_one, 404 if nothing was deleted, else unlink every
\* OUTPUT_DIR/{project_id}_*.mp4
DeleteProjectReply(id) ==
    IF ~Stored(id) THEN NotFound
    ELSE Reply(200, [p \in DOMAIN db \ {id} |-> db[p]],
               [f \in {g \in DOMAIN outputs : g[1] # id} |-> outputs[f]])

DeleteProject(id) == Serve /\ Handled(DeleteProjectReply(id))

GetVideoReply_WholeOnly(filename) ==
    IF filename \in DOMAIN outputs /\ outputs[filename].complete
    THEN Reply(200, db, outputs) ELSE NotFound

\* get_video: 404 if OUTPUT_DIR / filename does not exist, else the file
GetVideoReply(filename) ==
    IF filename \notin DOMAIN outputs THEN NotFound ELSE Reply(200, db, outputs)

GetVideo(filename) == Serve /\ Handled(GetVideoReply(filename))

\* ------------------------------------------------------- generate_video
Goto(c, pc) == gen' = [gen EXCEPT ![c].pc = pc]

NoImages_Unchecked(project) == FALSE

\* if not project.images
NoImages(project) == project.images = <<>>

\* find_one, the 404 and 400 checks: the call as they leave it
GenFindCall(project_id) ==
    IF ~Stored(project_id)
    THEN Done(project_id, 404, ErrorBody(<<"Project not found">>))
    ELSE IF NoImages(db[project_id])
    THEN Done(project_id, 400, ErrorBody(<<"No images uploaded">>))
    ELSE [IdleCall EXCEPT !.pc = "set_processing", !.project_id = project_id,
                          !.project = db[project_id]]

GenFind(project_id) ==
    /\ Serve
    /\ gen' = Append(gen, GenFindCall(project_id))
    /\ UNCHANGED <<db, next_id, outputs, tmp, running>>

GenSetProcessing_Reread(c) ==
    /\ running = 0
    /\ gen[c].pc = "set_processing"
    /\ db' = IF Stored(gen[c].project_id)
             THEN UpdateOne(gen[c].project_id, ProcessingUpdate(db[gen[c].project_id]))
             ELSE db
    /\ gen' = [gen EXCEPT ![c].pc = "mkdtemp",
                          ![c].output_filename =
                              OutputFilename(gen[c].project_id,
                                             IF Stored(gen[c].project_id)
                                             THEN db[gen[c].project_id].resolution
                                             ELSE gen[c].project.resolution)]
    /\ UNCHANGED <<next_id, outputs, tmp, running, requests>>

\* update_one status processing; output_filename, output_path
GenSetProcessing(c) ==
    /\ running = 0
    /\ gen[c].pc = "set_processing"
    /\ db' = IF Stored(gen[c].project_id)
             THEN UpdateOne(gen[c].project_id, ProcessingUpdate(db[gen[c].project_id]))
             ELSE db
    /\ gen' = [gen EXCEPT ![c].pc = "mkdtemp",
                          ![c].output_filename =
                              OutputFilename(gen[c].project_id, gen[c].project.resolution)]
    /\ UNCHANGED <<next_id, outputs, tmp, running, requests>>

\* ------------------------------------------- create_video_from_images
\* except Exception: return False (the temporary directory is left as it is)
\* create_video_from_images returns: its locals end with it.
Returned(call, pc) ==
    [call EXCEPT !.pc = pc, !.temp_dir = 0, !.i = 0, !.video_clips = <<>>,
                 !.rendered = <<>>, !.commands = <<>>, !.stream = None]

ReturnFalse_True(c, e) ==
    /\ gen' = [gen EXCEPT ![c] = Returned(@, "update_completed")]
    /\ running' = 0

\* except Exception as e: print(f"Error creating video: {e}"); return False.
\* The call keeps the message printed as its error until generate_video has
\* read the False returned.
ReturnFalse(c, e) ==
    /\ gen' = [gen EXCEPT ![c] = [Returned(@, "update_failed") EXCEPT !.error = e]]
    /\ running' = 0

MkdtempName_Fixed(existing) == 1

\* tempfile.mkdtemp() takes a name that no existing directory has
MkdtempName(existing) ==
    CHOOSE d \in TempNames \ existing : \A e \in TempNames \ existing : d <= e

\* temp_dir = tempfile.mkdtemp(): a fresh directory, made for this call
Mkdtemp(c) ==
    /\ running = 0
    /\ gen[c].pc = "mkdtemp"
    /\ LET dir == MkdtempName(DOMAIN tmp)
       IN /\ tmp' = [d \in DOMAIN tmp \cup {dir} |-> IF d = dir THEN c ELSE tmp[d]]
          /\ gen' = [gen EXCEPT ![c].pc = "write_image", ![c].temp_dir = dir,
                                ![c].i = 0, ![c].video_clips = <<>>]
    /\ running' = c
    /\ UNCHANGED <<db, next_id, outputs, requests>>

WriteImage_Skipped(c, ok) ==
    /\ running = c
    /\ gen[c].pc = "write_image"
    /\ IF ok
       THEN Goto(c, "ken_burns")
       ELSE gen' = [gen EXCEPT ![c].i = @ + 1,
                               ![c].pc = IF gen[c].i + 1 = Len(gen[c].project.images)
                                         THEN "compose" ELSE "write_image"]
    /\ UNCHANGED <<db, next_id, outputs, tmp, running, requests>>

\* image_{i}.jpg: b64decode and write
WriteImage(c, ok) ==
    /\ running = c
    /\ gen[c].pc = "write_image"
    /\ IF ok
       THEN /\ Goto(c, "ken_burns")
            /\ UNCHANGED running
       ELSE ReturnFalse(c, <<"image">>)
    /\ UNCHANGED <<db, next_id, outputs, tmp, requests>>

\* clip_duration = project.duration / len(project.images), kept as the fraction
ClipDuration(project) == [num |-> project.duration, den |-> Len(project.images)]

\* zoom_start, zoom_end (in tenths), pan_x and pan_y of image i
ZoomStart(i) == 10 + i
ZoomEnd(i) == 12 + i
PanX(i) == (i % 2) * 100
PanY(i) == (i % 3) * 50

\* int(duration * 30)
ZoompanFrames(duration) == (duration.num * Fps) \div duration.den

\* The ffmpeg command create_ken_burns_effect builds and runs. zoom_filter and
\* pan_filter, the only uses of zoom_start, pan_x and pan_y, are strings that no
\* command takes; zoom_end is not used at all.
KenBurnsCommand(image_path, output_path, duration, zoom_start, zoom_end, pan_x, pan_y) ==
    [input |-> [path |-> image_path, loop |-> 1, t |-> duration],
     scale |-> <<TargetWidth, TargetHeight>>,
     zoompan |-> [z |-> "min(zoom+0.0015,1.5)", d |-> ZoompanFrames(duration),
                  x |-> "iw/2-(iw/zoom/2)", y |-> "ih/2-(ih/zoom/2)",
                  s |-> <<TargetWidth, TargetHeight>>],
     output |-> [path |-> output_path, vcodec |-> "libx264", pix_fmt |-> "yuv420p",
                 r |-> Fps]]

ClipAppended_Always(video_clips, i, ok) == Append(video_clips, i)

ClipAppended_Twice(video_clips, i, ok) ==
    IF ok THEN Append(Append(video_clips, i), i) ELSE video_clips

\* if create_ken_burns_effect(...): video_clips.append(clip_path)
ClipAppended(video_clips, i, ok) == IF ok THEN Append(video_clips, i) ELSE video_clips

\* create_ken_burns_effect returns True or False; the loop goes on either way
KenBurns(c, ok) ==
    /\ running = c
    /\ gen[c].pc = "ken_burns"
    /\ gen' = [gen EXCEPT ![c].video_clips = ClipAppended(@, gen[c].i, ok),
                          ![c].rendered = Append(@, ok),
                          ![c].commands =
                              Append(@, KenBurnsCommand(gen[c].i, gen[c].i,
                                                        ClipDuration(gen[c].project),
                                                        ZoomStart(gen[c].i), ZoomEnd(gen[c].i),
                                                        PanX(gen[c].i), PanY(gen[c].i))),
                          ![c].i = @ + 1,
                          ![c].pc = IF gen[c].i + 1 = Len(gen[c].project.images)
                                    THEN "compose" ELSE "write_image"]
    /\ UNCHANGED <<db, next_id, outputs, tmp, running, requests>>

Xfade_LastOnly(inputs, n) == [op |-> "input", clip |-> inputs[n]]

RECURSIVE Xfade_RightNested(_, _)
Xfade_RightNested(inputs, n) ==
    IF n = 1
    THEN [op |-> "input", clip |-> inputs[Len(inputs)]]
    ELSE [op |-> "xfade", transition |-> "fade", duration |-> XfadeDuration,
          left |-> [op |-> "input", clip |-> inputs[Len(inputs) - n + 1]],
          right |-> Xfade_RightNested(inputs, n - 1)]

RECURSIVE Xfade_Reversed(_, _)
Xfade_Reversed(inputs, n) ==
    IF n = 1
    THEN [op |-> "input", clip |-> inputs[Len(inputs)]]
    ELSE [op |-> "xfade", transition |-> "fade", duration |-> XfadeDuration,
          left |-> Xfade_Reversed(inputs, n - 1),
          right |-> [op |-> "input", clip |-> inputs[Len(inputs) - n + 1]]]

\* stream = inputs[0]; for i in 1..: stream = xfade([stream, inputs[i]])
RECURSIVE Xfade(_, _)
Xfade(inputs, n) ==
    IF n = 1
    THEN [op |-> "input", clip |-> inputs[1]]
    ELSE [op |-> "xfade", transition |-> "fade", duration |-> XfadeDuration,
          left |-> Xfade(inputs, n - 1), right |-> [op |-> "input", clip |-> inputs[n]]]

\* if not video_clips
NoClips(video_clips) == video_clips = <<>>

\* raise "No video clips created", or build the chain of fades
Compose(c) ==
    /\ running = c
    /\ gen[c].pc = "compose"
    /\ IF NoClips(gen[c].video_clips)
       THEN ReturnFalse(c, <<"No video clips created">>)
       ELSE /\ gen' = [gen EXCEPT ![c].pc = "logo",
                                  ![c].stream = Xfade(gen[c].video_clips,
                                                      Len(gen[c].video_clips))]
            /\ UNCHANGED running
    /\ UNCHANGED <<db, next_id, outputs, tmp, requests>>

Overlay_Blended(project, stream) ==
    [op |-> "overlay", main |-> stream, x |-> "W-w-20", y |-> "H-h-20",
     opacity |-> project.logo_opacity]

\* ffmpeg.overlay(stream, ffmpeg.input(logo_path), x='W-w-20', y='H-h-20')
Overlay(project, stream) ==
    [op |-> "overlay", main |-> stream, x |-> "W-w-20", y |-> "H-h-20"]

\* if project.logo_file: write logo.png, overlay at the bottom right
Logo(c, ok) ==
    /\ running = c
    /\ gen[c].pc = "logo"
    /\ IF gen[c].project.logo_file = None
       THEN /\ Goto(c, "music")
            /\ UNCHANGED running
       ELSE IF ok
       THEN /\ gen' = [gen EXCEPT ![c].pc = "music",
                                  ![c].stream = Overlay(gen[c].project, @)]
            /\ UNCHANGED running
       ELSE ReturnFalse(c, <<"logo">>)
    /\ UNCHANGED <<db, next_id, outputs, tmp, requests>>

Output_NoAudio(project, stream) ==
    [op |-> "output", video |-> stream, audio |-> None, vcodec |-> "libx264",
     acodec |-> None, pix_fmt |-> "yuv420p"]

\* ffmpeg.output(stream, audio, output_path, vcodec, acodec, pix_fmt), or the
\* same without audio and acodec
Output(project, stream) ==
    IF project.music_file = None
    THEN [op |-> "output", video |-> stream, audio |-> None, vcodec |-> "libx264",
          acodec |-> None, pix_fmt |-> "yuv420p"]
    ELSE [op |-> "output", video |-> stream, audio |-> project.music_file,
          vcodec |-> "libx264", acodec |-> <<"aac">>, pix_fmt |-> "yuv420p"]

\* if project.music_file: write music.mp3, output with audio; else output without
Music(c, ok) ==
    /\ running = c
    /\ gen[c].pc = "music"
    /\ IF gen[c].project.music_file = None
       THEN /\ gen' = [gen EXCEPT ![c].pc = "run",
                                  ![c].stream = Output(gen[c].project, @)]
            /\ UNCHANGED running
       ELSE IF ok
       THEN /\ gen' = [gen EXCEPT ![c].pc = "run",
                                  ![c].stream = Output(gen[c].project, @)]
            /\ UNCHANGED running
       ELSE ReturnFalse(c, <<"music">>)
    /\ UNCHANGED <<db, next_id, outputs, tmp, requests>>

OutputWrite(name, file) ==
    [f \in DOMAIN outputs \cup {name} |-> IF f = name THEN file ELSE outputs[f]]

\* ffmpeg.run(stream, overwrite_output=True): the encoder fails before it opens
\* the output, or truncates the output file and starts writing
FfmpegOpen(c, ok) ==
    /\ running = c
    /\ gen[c].pc = "run"
    /\ IF ok
       THEN /\ outputs' = OutputWrite(gen[c].output_filename,
                               [writer |-> c, complete |-> FALSE])
            /\ Goto(c, "encode")
            /\ UNCHANGED running
       ELSE /\ ReturnFalse(c, <<"ffmpeg">>)
            /\ UNCHANGED outputs
    /\ UNCHANGED <<db, next_id, tmp, requests>>

\* ffmpeg.run goes on: the encoder ends well, or fails and leaves what it wrote
FfmpegEncode(c, ok) ==
    /\ running = c
    /\ gen[c].pc = "encode"
    /\ IF ok
       THEN /\ outputs' = OutputWrite(gen[c].output_filename,
                               [writer |-> c, complete |-> TRUE])
            /\ Goto(c, "cleanup")
            /\ UNCHANGED running
       ELSE /\ ReturnFalse(c, <<"ffmpeg">>)
            /\ UNCHANGED outputs
    /\ UNCHANGED <<db, next_id, tmp, requests>>

\* shutil.rmtree(temp_dir); return True
Cleanup(c) ==
    /\ running = c
    /\ gen[c].pc = "cleanup"
    /\ tmp' = [d \in DOMAIN tmp \ {gen[c].temp_dir} |-> tmp[d]]
    /\ gen' = [gen EXCEPT ![c] = Returned(@, "update_completed")]
    /\ running' = 0
    /\ UNCHANGED <<db, next_id, outputs, requests>>

\* ------------------------------------------ generate_video, continued
\* if success: update_one video_url and status completed; return the message
GenCompleted(c) ==
    /\ running = 0
    /\ gen[c].pc = "update_completed"
    /\ db' = IF Stored(gen[c].project_id)
             THEN UpdateOne(gen[c].project_id,
                            CompletedUpdate(db[gen[c].project_id], gen[c].output_filename))
             ELSE db
    /\ gen' = [gen EXCEPT ![c] = Done(@.project_id, 200, SuccessBody(@.output_filename))]
    /\ UNCHANGED <<next_id, outputs, tmp, running, requests>>

\* else: update_one status failed; raise HTTPException(500)
GenFailed(c) ==
    /\ running = 0
    /\ gen[c].pc = "update_failed"
    /\ db' = IF Stored(gen[c].project_id)
             THEN UpdateOne(gen[c].project_id, FailedUpdate(db[gen[c].project_id]))
             ELSE db
    /\ gen' = [gen EXCEPT ![c].pc = "except", ![c].error = None]
    /\ UNCHANGED <<next_id, outputs, tmp, running, requests>>

\* except Exception (the HTTPException just raised): update_one status failed
\* again; raise HTTPException(500, "Video generation failed: ...")
GenExcept(c) ==
    /\ running = 0
    /\ gen[c].pc = "except"
    /\ db' = IF Stored(gen[c].project_id)
             THEN UpdateOne(gen[c].project_id, FailedUpdate(db[gen[c].project_id]))
             ELSE db
    /\ gen' = [gen EXCEPT ![c] = Done(@.project_id, 500,
                                       ErrorBody(FailureDetail(
                                           <<500, "Video generation failed">>)))]
    /\ UNCHANGED <<next_id, outputs, tmp, running, requests>>

Next ==
    \/ \E r \in ResolutionInputs : CreateProject(r)
    \/ \E id \in ProjectIds : GetProject(id)
    \/ \E id \in ProjectIds, r \in ResolutionInputs : GetVideo(OutputFilename(id, r))
    \/ \E id \in ProjectIds, f \in UploadFileInputs : UploadImages(id, f)
    \/ \E id \in ProjectIds : UploadLogo(id, <<"logo">>)
    \/ \E id \in ProjectIds : UploadMusic(id, <<"music">>)
    \/ \E id \in ProjectIds, d \in DurationInputs, o \in OpacityInputs,
          r \in ResolutionInputs : UpdateProjectSettings(id, d, o, r)
    \/ \E id \in ProjectIds : DeleteProject(id)
    \/ \E id \in ProjectIds : GenFind(id)
    \/ \E c \in Calls : GenSetProcessing(c)
    \/ \E c \in Calls : Mkdtemp(c)
    \/ \E c \in Calls, ok \in BOOLEAN : WriteImage(c, ok)
    \/ \E c \in Calls, ok \in BOOLEAN : KenBurns(c, ok)
    \/ \E c \in Calls : Compose(c)
    \/ \E c \in Calls, ok \in BOOLEAN : Logo(c, ok)
    \/ \E c \in Calls, ok \in BOOLEAN : Music(c, ok)
    \/ \E c \in Calls, ok \in BOOLEAN : FfmpegOpen(c, ok)
    \/ \E c \in Calls, ok \in BOOLEAN : FfmpegEncode(c, ok)
    \/ \E c \in Calls : Cleanup(c)
    \/ \E c \in Calls : GenCompleted(c)
    \/ \E c \in Calls : GenFailed(c)
    \/ \E c \in Calls : GenExcept(c)

Spec == Init /\ [][Next]_vars

\* resolution is a plain str in VideoProjectCreate and in the settings form: a
\* request may carry any string, here one that is no resolution name.
AnyResolutionInputs == ResolutionInputs \cup {"../x"}

NextAnyResolution ==
    \/ Next
    \/ \E r \in AnyResolutionInputs : CreateProject(r)
    \/ \E id \in ProjectIds, d \in DurationInputs, o \in OpacityInputs,
          r \in AnyResolutionInputs : UpdateProjectSettings(id, d, o, r)

SpecAnyResolution == Init /\ [][NextAnyResolution]_vars

\* content_type is what the client declares and the bytes are what it sends:
\* an upload may carry a file of another type, bytes that are no image under
\* an image type, and an image larger than MaxDimension.
TextFile    == UploadFile("text/plain", 1, FALSE, 0)
BrokenImage == UploadFile("image/png", 1, FALSE, 0)
LargeImage  == UploadFile("image/jpeg", 1, TRUE, MaxDimension + 1)

AnyFileInputs ==
    UploadFileInputs
    \cup {<<TextFile>>, <<ImageFile(1), TextFile>>, <<TextFile, ImageFile(1)>>,
          <<BrokenImage>>, <<ImageFile(1), BrokenImage>>, <<BrokenImage, TextFile>>,
          <<LargeImage>>, <<ImageFile(2), LargeImage>>}

NextAnyFile ==
    \/ Next
    \/ \E id \in ProjectIds, f \in AnyFileInputs : UploadImages(id, f)

SpecAnyFile == Init /\ [][NextAnyFile]_vars

\* The store after the requests that made one project ready for rendering: a
\* create, an upload of images, and maybe an upload of a logo, an upload of
\* music and a settings update. Two more requests are to come.
RenderOpacities == OpacityInputs \cup {50}

RenderProjects ==
    {[VideoProject(1, d, o, r) EXCEPT !.images = f, !.logo_file = l, !.music_file = m] :
        d \in DurationInputs, o \in RenderOpacities, r \in ResolutionInputs,
        f \in UploadInputs, l \in {None, <<"logo">>}, m \in {None, <<"music">>}}

InitRender ==
    /\ \E project \in RenderProjects : db = <<project>>
    /\ next_id = 1
    /\ outputs = <<>>
    /\ tmp = <<>>
    /\ gen = <<>>
    /\ running = 0
    /\ requests = MaxRequests - 2

SpecRender == InitRender /\ [][Next]_vars
\* ----------------------------------------------------------- properties
PipelinePcs ==
    {"write_image", "ken_burns", "compose", "logo", "music", "run", "encode", "cleanup"}

\* Between the update that sets processing and the last status update.
InFlightPcs == {"mkdtemp"} \cup PipelinePcs \cup {"update_completed", "update_failed", "except"}

OthersInFlight(c) ==
    \E d \in Calls \ {c} :
        gen[d].project_id = gen[c].project_id /\ gen[d].pc \in InFlightPcs

Moved(c) == c \in DOMAIN gen' /\ gen'[c].pc # gen[c].pc

OkClips(rendered) ==
    LET RECURSIVE Sel(_)
        Sel(k) == IF k = 0 THEN <<>>
                  ELSE IF rendered[k] THEN Append(Sel(k - 1), k - 1) ELSE Sel(k - 1)
    IN Sel(Len(rendered))

RECURSIVE Inputs(_)
Inputs(stream) ==
    IF stream.op = "input" THEN <<stream.clip>>
    ELSE Inputs(stream.left) \o Inputs(stream.right)

RECURSIVE Transitions(_)
Transitions(stream) ==
    IF stream.op = "input" THEN 0
    ELSE Transitions(stream.left) + Transitions(stream.right) + 1

Video(stream) ==
    LET v == IF stream.op = "output" THEN stream.video ELSE stream
    IN IF v.op = "overlay" THEN v.main ELSE v

\* Status processing is held by a call between its update to processing and its
\* terminal status update.
NotStuck ==
    \A id \in DOMAIN db :
        db[id].status = "processing"
        => \E c \in Calls :
              /\ gen[c].project_id = id
              /\ gen[c].pc \in {"mkdtemp", "update_completed", "update_failed"} \cup PipelinePcs

\* C1: the step in which a generate call that passed its preconditions returns
\* or raises leaves its project, if still stored, in status completed or failed;
\* and no project is in status processing without a generate call for it that
\* has yet to write its terminal status.
C1_TerminalStatus ==
    [][/\ \A c \in Calls :
            (Moved(c) /\ gen'[c].pc = "done" /\ gen[c].project_id \in DOMAIN db')
            => /\ gen'[c].response \in {200, 500}
               /\ db'[gen[c].project_id].status \in {"completed", "failed"}
       /\ NotStuck']_vars

C1_Witness ==
    \E c \in Calls :
        /\ gen[c].pc = "done"
        /\ gen[c].response = 500
        /\ Stored(gen[c].project_id)
        /\ ~OthersInFlight(c)
        /\ db[gen[c].project_id].status = "failed"

\* C2: a generate request for a stored project with no images ends at once with
\* HTTP 400, and that step changes no stored document and no output file.
C2_EmptyRejected ==
    [][\A id \in DOMAIN db :
         (/\ db[id].images = <<>>
          /\ Len(gen') = Len(gen) + 1
          /\ gen'[Len(gen')].project_id = id)
         => /\ gen'[Len(gen')].pc = "done"
            /\ gen'[Len(gen')].response = 400
            /\ db' = db
            /\ outputs' = outputs]_vars

C2_Witness ==
    \E c \in Calls :
        /\ gen[c].pc = "done"
        /\ gen[c].response = 400
        /\ Stored(gen[c].project_id)
        /\ db[gen[c].project_id].status = "draft"

StatusSteps ==
    {<<"draft", "processing">>, <<"processing", "completed">>,
     <<"processing", "failed">>, <<"completed", "processing">>,
     <<"failed", "processing">>}

\* C3: every change of a project's status is one of draft->processing,
\* processing->completed, processing->failed, completed->processing,
\* failed->processing.
C3_StatusSteps ==
    [][\A id \in DOMAIN db \cap DOMAIN db' :
         db'[id].status # db[id].status
         => <<db[id].status, db'[id].status>> \in StatusSteps]_vars

\* C4: no two generate calls for one project are both between their update to
\* processing and their terminal status update.
C4_OneInFlight ==
    \A c \in Calls : gen[c].pc \in InFlightPcs => ~OthersInFlight(c)

\* C5: status becomes completed, or video_url changes, only in the update of a
\* call whose pipeline returned True, and that update sets video_url to
\* /api/videos/{project_id}_{resolution}.mp4 along with completed; the pipeline
\* returns True only when its own complete output file is in place.
C5_CompletedAfterOutput ==
    [][/\ \A id \in DOMAIN db \cap DOMAIN db' :
            (\/ db'[id].status = "completed" /\ db[id].status # "completed"
             \/ db'[id].video_url # db[id].video_url)
            => \E c \in Calls :
                  /\ gen[c].pc = "update_completed"
                  /\ gen'[c].pc = "done"
                  /\ gen[c].project_id = id
                  /\ db'[id].status = "completed"
                  /\ db'[id].video_url =
                        <<"/api/videos/", id, gen[c].project.resolution, "mp4">>
       /\ \A c \in Calls :
            (gen[c].pc # "update_completed" /\ gen'[c].pc = "update_completed")
            => /\ gen[c].output_filename \in DOMAIN outputs
               /\ outputs[gen[c].output_filename] = [writer |-> c, complete |-> TRUE]]_vars

C5_Witness ==
    \E c \in Calls :
        /\ gen[c].pc = "done"
        /\ gen[c].response = 200
        /\ Stored(gen[c].project_id)
        /\ db[gen[c].project_id].status = "completed"
        /\ db[gen[c].project_id].video_url # None

\* C6: a project whose status is completed references through video_url an
\* output file that exists and is completely written.
C6_CompletedFileWhole ==
    \A id \in DOMAIN db :
        db[id].status = "completed"
        => /\ db[id].video_url # None
           /\ Tail(db[id].video_url) \in DOMAIN outputs
           /\ outputs[Tail(db[id].video_url)].complete

\* C7: a temporary directory exists only while the job that created it is
\* inside create_video_from_images.
C7_TempDirRemoved ==
    \A d \in DOMAIN tmp : gen[tmp[d]].pc \in PipelinePcs

\* C8: while a job is inside its render pipeline its project, if stored, is not
\* in status draft.
C8_ProcessingBeforeRender ==
    \A c \in Calls :
        (gen[c].pc \in PipelinePcs /\ Stored(gen[c].project_id))
        => db[gen[c].project_id].status # "draft"

C8_Witness ==
    \E c \in Calls :
        /\ gen[c].pc = "ken_burns"
        /\ gen[c].i = 0
        /\ Stored(gen[c].project_id)
        /\ db[gen[c].project_id].status = "processing"

AllFailed(call) ==
    /\ Len(call.rendered) = Len(call.project.images)
    /\ \A k \in DOMAIN call.rendered : ~call.rendered[k]

\* C9: when the clip render failed for every image the pipeline returns False
\* without composing or running the encoder, and a call whose pipeline returned
\* False sets status failed and raises HTTP 500.
C9_AllClipsFail ==
    [][\A c \in Calls :
         /\ (gen[c].pc = "compose" /\ AllFailed(gen[c]) /\ Moved(c))
            => gen'[c].pc = "update_failed" /\ outputs' = outputs
         /\ (gen[c].pc = "update_failed" /\ Moved(c))
            => /\ gen'[c].pc = "except"
               /\ Stored(gen[c].project_id) => db'[gen[c].project_id].status = "failed"
         /\ (gen[c].pc = "except" /\ Moved(c))
            => /\ gen'[c].pc = "done"
               /\ gen'[c].response = 500
               /\ Stored(gen[c].project_id) => db'[gen[c].project_id].status = "failed"]_vars

C9_Witness ==
    \E c \in Calls :
        /\ gen[c].pc = "compose"
        /\ Len(gen[c].project.images) = MaxImages
        /\ AllFailed(gen[c])

\* C10: a failed clip render does not end the job: the loop goes on, the clips
\* composed are exactly those rendered, in order, with one fade fewer than
\* clips, and when the encoder ends well the call sets completed and returns 200.
C10_PartialFailure ==
    [][\A c \in Calls :
         /\ (gen[c].pc = "ken_burns" /\ Moved(c))
            => /\ gen'[c].pc \in {"write_image", "compose"}
               /\ Len(gen'[c].rendered) = Len(gen[c].rendered) + 1
               /\ gen'[c].video_clips = OkClips(gen'[c].rendered)
         /\ (gen[c].pc = "encode" /\ Moved(c) /\ gen'[c].pc = "cleanup")
            => /\ Len(gen[c].rendered) = Len(gen[c].project.images)
               /\ Inputs(Video(gen[c].stream)) = OkClips(gen[c].rendered)
               /\ Transitions(Video(gen[c].stream)) = Len(OkClips(gen[c].rendered)) - 1
               /\ outputs'[gen[c].output_filename] = [writer |-> c, complete |-> TRUE]
         /\ (gen[c].pc = "cleanup" /\ Moved(c)) => gen'[c].pc = "update_completed"
         /\ (gen[c].pc = "update_completed" /\ Moved(c))
            => /\ gen'[c].pc = "done"
               /\ gen'[c].response = 200
               /\ Stored(gen[c].project_id)
                  => db'[gen[c].project_id].status = "completed"]_vars

C10_Witness ==
    \E c \in Calls :
        /\ gen[c].pc = "cleanup"
        /\ gen[c].rendered = <<TRUE, FALSE, TRUE>>
        /\ Inputs(Video(gen[c].stream)) = <<0, 2>>
        /\ Transitions(Video(gen[c].stream)) = 1

\* The calls whose clips have been composed into a stream.
ComposedPcs == {"logo", "music", "run", "encode", "cleanup"}

\* C11: the clips composed are at most as many as the images, fewer exactly
\* when a render failed; each clip is the render of one image of the project
\* and no image gives more than one clip.
C11_OneClipPerImage ==
    \A c \in Calls :
        gen[c].pc \in ComposedPcs
        => LET clips == Inputs(Video(gen[c].stream))
               n == Len(gen[c].project.images)
           IN /\ Len(gen[c].rendered) = n
              /\ Len(clips) <= n
              /\ (Len(clips) < n) <=> (\E k \in 1..n : ~gen[c].rendered[k])
              /\ \A a \in 1..Len(clips) :
                    /\ clips[a] \in 0..(n - 1)
                    /\ gen[c].rendered[clips[a] + 1]
                    /\ \A b \in 1..Len(clips) : clips[a] = clips[b] => a = b

C11_Witness ==
    \E c \in Calls :
        /\ gen[c].pc = "logo"
        /\ gen[c].rendered = <<FALSE, TRUE, TRUE>>
        /\ Inputs(Video(gen[c].stream)) = <<1, 2>>

\* C12: the clips are composed in the order of their images: a clip of an
\* earlier image comes before a clip of a later image, whichever renders failed.
C12_SourceOrder ==
    \A c \in Calls :
        gen[c].pc \in ComposedPcs
        => LET clips == Inputs(Video(gen[c].stream))
           IN \A a, b \in 1..Len(clips) : a < b => clips[a] < clips[b]

C12_Witness ==
    \E c \in Calls :
        /\ gen[c].pc = "music"
        /\ gen[c].rendered = <<TRUE, TRUE, TRUE>>
        /\ Inputs(Video(gen[c].stream)) = <<0, 1, 2>>

\* C13: a failure of a composition step or of the encoder, in a call that has
\* at least one rendered clip, ends the pipeline with False; the call then
\* writes failed, writes failed again in its handler and raises HTTP 500: it
\* never writes completed.
C13_ComposeOrEncodeFails ==
    [][\A c \in Calls :
         /\ (/\ gen[c].pc \in {"logo", "music", "run", "encode"}
             /\ \E k \in 1..Len(gen[c].rendered) : gen[c].rendered[k]
             /\ Moved(c)
             /\ gen'[c].pc \notin ComposedPcs)
            => /\ gen'[c].pc = "update_failed"
               /\ db' = db
         /\ (gen[c].pc = "update_failed" /\ Moved(c))
            => /\ gen'[c].pc = "except"
               /\ Stored(gen[c].project_id)
                  => db'[gen[c].project_id].status = "failed"
         /\ (gen[c].pc = "except" /\ Moved(c))
            => /\ gen'[c].pc = "done"
               /\ gen'[c].response = 500
               /\ Stored(gen[c].project_id)
                  => db'[gen[c].project_id].status = "failed"]_vars

C13_Witness ==
    \E c \in Calls, f \in DOMAIN outputs :
        /\ outputs[f] = [writer |-> c, complete |-> FALSE]
        /\ gen[c].pc = "done"
        /\ gen[c].response = 500
        /\ Stored(gen[c].project_id)
        /\ db[gen[c].project_id].status = "failed"

\* C14: once a generate call has ended in failed (HTTP 500), its project, if
\* still stored, has no video_url that names an output file the call wrote,
\* whole or in part.
C14_NoStrayOutput ==
    \A c \in Calls :
        (gen[c].pc = "done" /\ gen[c].response = 500 /\ Stored(gen[c].project_id))
        => \A f \in DOMAIN outputs :
              outputs[f].writer = c => db[gen[c].project_id].video_url # VideoUrl(f)

\* C15: the output path of a call is made of its project id and the resolution
\* it read, and of nothing else; the encoder of the call writes that path alone,
\* and when it ends well the file there is the file of this call, whatever an
\* earlier call left; the completed update sets video_url to that same path.
C15_OutputPath ==
    [][\A c \in Calls :
         LET name == <<gen[c].project_id, gen[c].project.resolution, "mp4">>
         IN /\ (gen[c].pc = "set_processing" /\ Moved(c))
               => gen'[c].output_filename = name
            /\ (gen[c].pc \in {"run", "encode"} /\ Moved(c))
               => /\ \A f \in DOMAIN outputs' \ {name} :
                        f \in DOMAIN outputs /\ outputs'[f] = outputs[f]
                  /\ gen'[c].pc = "encode"
                     => outputs'[name] = [writer |-> c, complete |-> FALSE]
                  /\ gen'[c].pc = "cleanup"
                     => outputs'[name] = [writer |-> c, complete |-> TRUE]
            /\ (gen[c].pc = "update_completed" /\ Moved(c) /\ Stored(gen[c].project_id))
               => db'[gen[c].project_id].video_url = <<"/api/videos/">> \o name]_vars

C15_Witness ==
    \E c, d \in Calls :
        /\ c < d
        /\ gen[c].project_id = gen[d].project_id
        /\ gen[c].pc = "done" /\ gen[c].response = 200
        /\ gen[d].pc = "done" /\ gen[d].response = 200
        /\ Stored(gen[d].project_id)
        /\ LET name == <<gen[d].project_id, db[gen[d].project_id].resolution, "mp4">>
           IN /\ DOMAIN outputs = {name}
              /\ outputs[name] = [writer |-> d, complete |-> TRUE]
              /\ db[gen[d].project_id].video_url = <<"/api/videos/">> \o name

\* C16: a generate call that passed its preconditions ends in one of two ways.
\* Either it returns 200 with a video_url, in the step that sets its project,
\* if still stored, to completed with that same video_url; or it raises HTTP
\* 500 whose detail starts with "Video generation failed", in a step that
\* leaves the project, if still stored, in status failed.
C16_ResponseAgrees ==
    [][\A c \in Calls :
         (Moved(c) /\ gen'[c].pc = "done")
         => LET id == gen[c].project_id
                body == gen'[c].body
            IN \/ /\ gen[c].pc = "update_completed"
                  /\ gen'[c].response = 200
                  /\ body.video_url = <<"/api/videos/">> \o gen[c].output_filename
                  /\ body.detail = <<>>
                  /\ id \in DOMAIN db'
                     => /\ db'[id].status = "completed"
                        /\ db'[id].video_url = body.video_url
               \/ /\ gen[c].pc = "except"
                  /\ gen'[c].response = 500
                  /\ Len(body.detail) > 0
                  /\ Head(body.detail) = "Video generation failed"
                  /\ body.video_url = None
                  /\ id \in DOMAIN db' => db'[id].status = "failed"]_vars

C16_Witness ==
    \E c, d \in Calls :
        /\ gen[c].pc = "done" /\ gen[c].response = 200
        /\ Stored(gen[c].project_id)
        /\ db[gen[c].project_id].status = "completed"
        /\ gen[c].body.video_url = db[gen[c].project_id].video_url
        /\ gen[d].pc = "done" /\ gen[d].response = 500
        /\ Head(gen[d].body.detail) = "Video generation failed"

\* A call inside the pipeline works in a directory that exists, that was made
\* for it, and that no other call holds.
OwnTempDir ==
    \A c \in Calls :
        gen[c].pc \in PipelinePcs
        => /\ gen[c].temp_dir \in DOMAIN tmp
           /\ tmp[gen[c].temp_dir] = c
           /\ \A d \in Calls \ {c} : gen[d].temp_dir # gen[c].temp_dir

\* C17: the directory a render job makes is new, not one that an earlier or a
\* running job made and that still exists; the job works in it alone, and its
\* steps touch no directory of another job.
C17_OwnTempDir ==
    [][/\ OwnTempDir'
       /\ \A c \in Calls :
            /\ (gen[c].pc = "mkdtemp" /\ Moved(c))
               => /\ gen'[c].temp_dir \notin DOMAIN tmp
                  /\ DOMAIN tmp' = DOMAIN tmp \cup {gen'[c].temp_dir}
                  /\ \A d \in DOMAIN tmp : tmp'[d] = tmp[d]
            /\ (gen[c].pc \in PipelinePcs /\ Moved(c))
               => \A d \in DOMAIN tmp \ {gen[c].temp_dir} :
                     d \in DOMAIN tmp' /\ tmp'[d] = tmp[d]]_vars

C17_Witness ==
    \E c, d \in Calls, dir \in DOMAIN tmp :
        /\ c # d
        /\ gen[c].pc = "done"
        /\ tmp[dir] = c
        /\ gen[d].pc \in PipelinePcs
        /\ gen[d].temp_dir # dir
        /\ tmp[gen[d].temp_dir] = d

\* The stored fields of a project that generate_video is allowed to write.
OtherFields(doc) == [doc EXCEPT !.status = "", !.video_url = None]

\* C18: a step of a generate call (its first, which reads the project, and
\* every later one up to its return or raise) adds and removes no project,
\* changes no project other than its own, and in its own changes at most
\* status and video_url.
C18_GenerateFrame ==
    [][\A c \in DOMAIN gen' :
         (IF c \in Calls THEN Moved(c) ELSE TRUE)
         => /\ DOMAIN db' = DOMAIN db
            /\ next_id' = next_id
            /\ \A id \in DOMAIN db :
                  IF id = gen'[c].project_id
                  THEN OtherFields(db'[id]) = OtherFields(db[id])
                  ELSE db'[id] = db[id]]_vars

C18_Witness ==
    \E c \in Calls, id \in DOMAIN db :
        /\ gen[c].pc = "done" /\ gen[c].response = 200
        /\ Stored(gen[c].project_id)
        /\ id # gen[c].project_id
        /\ db[id] = VideoProject(id, DefaultDuration, DefaultOpacity, db[id].resolution)
        /\ db[gen[c].project_id].images # <<>>
        /\ db[gen[c].project_id].status = "completed"
        /\ db[gen[c].project_id].video_url # None

\* C19: while a generate call is inside the rendering pipeline and requests are
\* still to come, a request for another project can be served at once: the
\* handler of a create or of a generate for another id can take its step.
C19_NotBlocked ==
    \A c \in Calls :
        (gen[c].pc \in PipelinePcs /\ requests < MaxRequests)
        => ENABLED (\/ \E r \in ResolutionInputs : CreateProject(r)
                    \/ \E id \in ProjectIds \ {gen[c].project_id} : GenFind(id))

\* C20: every stored resolution is 720p or 1080p, and every output filename,
\* computed by a call or written by the encoder, is made of a project id and
\* one of these two resolutions.
C20_ResolutionEnumerated ==
    /\ \A id \in DOMAIN db : db[id].resolution \in {"720p", "1080p"}
    /\ \A c \in Calls :
          gen[c].output_filename # None
          => gen[c].output_filename \in
                {<<gen[c].project_id, r, "mp4">> : r \in {"720p", "1080p"}}
    /\ \A f \in DOMAIN outputs :
          \E id \in ProjectIds, r \in {"720p", "1080p"} : f = <<id, r, "mp4">>

\* The replies of the handlers of one project, other than generate_video, to
\* a request that names id.
ProjectReplies(id) ==
    {GetProjectReply(id), UploadLogoReply(id, <<"logo">>),
     UploadMusicReply(id, <<"music">>), DeleteProjectReply(id)}
    \cup {UploadImagesReply(id, f) : f \in UploadFileInputs}
    \cup {UpdateProjectSettingsReply(id, d, o, r) :
             d \in DurationInputs, o \in OpacityInputs, r \in ResolutionInputs}

\* C21: for an id that names no stored project, every handler of one project
\* answers 404 and leaves the stored projects and the output files as they
\* are; generate_video ends at once with 404, before its first update.
C21_NotFound ==
    \A id \in ProjectIds \ DOMAIN db :
        /\ \A reply \in ProjectReplies(id) :
              reply.code = 404 /\ reply.db = db /\ reply.outputs = outputs
        /\ GenFindCall(id).pc = "done"
        /\ GenFindCall(id).response = 404

\* A project was deleted while another stays stored, and a generate request
\* that named the deleted one was answered 404.
C21_Witness ==
    \E c \in Calls :
        /\ gen[c].project_id \in 1..next_id
        /\ ~Stored(gen[c].project_id)
        /\ gen[c].pc = "done"
        /\ gen[c].response = 404
        /\ db # <<>>

\* C22: once a generate call has returned 200, the file name in the video_url
\* it returned is one that get_video serves, in every later state in which the
\* project is still stored, a later generate call for it included.
C22_VideoServed ==
    \A c \in Calls :
        (gen[c].pc = "done" /\ gen[c].response = 200 /\ Stored(gen[c].project_id))
        => /\ Head(gen[c].body.video_url) = "/api/videos/"
           /\ GetVideoReply(Tail(gen[c].body.video_url)).code = 200

C22_Witness ==
    \E c, d \in Calls :
        /\ c < d
        /\ gen[c].project_id = gen[d].project_id
        /\ Stored(gen[c].project_id)
        /\ gen[c].pc = "done" /\ gen[c].response = 200
        /\ gen[d].pc = "done" /\ gen[d].response = 500
        /\ Tail(gen[c].body.video_url) \in DOMAIN outputs
        /\ outputs[Tail(gen[c].body.video_url)] = [writer |-> d, complete |-> FALSE]

Abs(x) == IF x < 0 THEN 0 - x ELSE x

\* The command that rendered clip i of a call.
CommandOf(call, i) == call.commands[i + 1]

\* The frames asked of the renderer for the clips, at 30 frames a second.
RECURSIVE SumFrames(_, _)
SumFrames(call, clips) ==
    IF clips = <<>> THEN 0
    ELSE CommandOf(call, Head(clips)).zoompan.d + SumFrames(call, Tail(clips))

\* C23: in a job that has composed its clips, the lengths asked for the clips
\* that were rendered add up to project.duration, at most one frame off for
\* each clip.
C23_ClipDurationsSum ==
    \A c \in Calls :
        gen[c].pc \in ComposedPcs
        => LET clips == Inputs(Video(gen[c].stream))
           IN Abs(SumFrames(gen[c], clips) - Fps * gen[c].project.duration) <= Len(clips)

\* The seconds asked of the renderer for one clip, in milliseconds.
ClipMillis(command) == (command.input.t.num * 1000) \div command.input.t.den

RECURSIVE SumMillis(_, _)
SumMillis(call, clips) ==
    IF clips = <<>> THEN 0
    ELSE ClipMillis(CommandOf(call, Head(clips))) + SumMillis(call, Tail(clips))

\* The length of the composed video when every fade overlaps its two sides by
\* the fade's duration: the clips end to end, less one overlap for each fade.
OutputMillis(call) ==
    LET video == Video(call.stream)
    IN SumMillis(call, Inputs(video)) - XfadeDuration * Transitions(video)

\* C24: when the encoder of a job has ended well, the length of its output is
\* project.duration less half a second for each of the k - 1 fades, within half
\* a second.
C24_OutputDuration ==
    \A c \in Calls :
        gen[c].pc = "cleanup"
        => LET k == Len(Inputs(Video(gen[c].stream)))
           IN Abs(OutputMillis(gen[c])
                  - (1000 * gen[c].project.duration - XfadeDuration * (k - 1)))
              <= XfadeDuration

\* A single clip, or a fade of half a second from a chain of this kind into
\* a single clip.
RECURSIVE LeftChain(_)
LeftChain(stream) ==
    IF stream.op = "input" THEN TRUE
    ELSE /\ stream.op = "xfade"
         /\ stream.transition = "fade"
         /\ stream.duration = XfadeDuration
         /\ stream.right.op = "input"
         /\ LeftChain(stream.left)

\* C25: the k clips of a job are composed with k - 1 fades of 0.5 s, each from
\* what was composed so far into the next clip; one clip alone is passed on as
\* it is.
C25_FadeChain ==
    \A c \in Calls :
        gen[c].pc \in ComposedPcs
        => LET video == Video(gen[c].stream)
               k == Len(gen[c].video_clips)
           IN /\ k >= 1
              /\ Inputs(video) = gen[c].video_clips
              /\ Transitions(video) = k - 1
              /\ LeftChain(video)
              /\ k = 1 => video = [op |-> "input", clip |-> gen[c].video_clips[1]]

C25_Witness ==
    \E c \in Calls :
        /\ gen[c].pc = "run"
        /\ Len(gen[c].video_clips) = 3
        /\ Transitions(Video(gen[c].stream)) = 2
        /\ Video(gen[c].stream).left.op = "xfade"

\* The zoom and pan that a render command applies to its image.
Motion(command) == <<command.zoompan.z, command.zoompan.x, command.zoompan.y>>

\* C26: two images of one job, of different indices, are rendered with
\* different zoom or pan.
C26_MotionVaries ==
    \A c \in Calls :
        \A a, b \in DOMAIN gen[c].commands :
            a # b => Motion(gen[c].commands[a]) # Motion(gen[c].commands[b])

\* The frame size of a render command.
FrameSize(command) == command.zoompan.s

\* C27: the clips of a job are rendered at 1080x1920 when the resolution of its
\* project is 1080p, and at another size, of ratio 9:16, when it is 720p.
C27_FrameSizeByResolution ==
    \A c \in Calls :
        \A k \in DOMAIN gen[c].commands :
            LET size == FrameSize(gen[c].commands[k])
            IN /\ size[1] * 16 = size[2] * 9
               /\ (size = <<1080, 1920>>) <=> (gen[c].project.resolution = "1080p")

\* The calls whose stream is the output stream handed to the encoder.
EncodePcs == {"run", "encode", "cleanup"}

\* C28: the output stream of a job has video codec libx264 and pixel format
\* yuv420p whatever the project has; its video goes through a logo overlay
\* exactly when the project has a logo, and it has an audio stream, which is
\* then the music of the project, exactly when the project has music.
C28_OutputProfile ==
    \A c \in Calls :
        gen[c].pc \in EncodePcs
        => LET stream == gen[c].stream
               project == gen[c].project
           IN /\ stream.op = "output"
              /\ stream.vcodec = "libx264"
              /\ stream.pix_fmt = "yuv420p"
              /\ (stream.video.op = "overlay") <=> (project.logo_file # None)
              /\ (stream.audio # None) <=> (project.music_file # None)
              /\ project.music_file # None => stream.audio = project.music_file

C28_Witness ==
    \E c, d \in Calls :
        /\ gen[c].pc = "done" /\ gen[c].response = 200
        /\ gen[d].pc = "run"
        /\ gen[d].project.logo_file # None
        /\ gen[d].project.music_file # None
        /\ gen[d].stream.video.op = "overlay"
        /\ gen[d].stream.audio = <<"music">>

\* C29: the step that decodes and writes an asset has two outcomes only. It
\* goes on with that asset (the image goes to the renderer, the logo is
\* overlaid, the music is the audio of the output), or the pipeline ends with
\* False, whatever was rendered before, and the call then writes failed. The
\* asset is never left out.
C29_AssetFailurePropagates ==
    [][\A c \in Calls :
         Moved(c)
         => LET call == gen[c]
                after == gen'[c]
            IN /\ call.pc = "write_image"
                  => \/ /\ after.pc = "ken_burns"
                        /\ after.i = call.i
                        /\ after.rendered = call.rendered
                     \/ /\ after.pc = "update_failed"
                        /\ after.error = <<"image">>
               /\ (call.pc = "logo" /\ call.project.logo_file # None)
                  => \/ /\ after.pc = "music"
                        /\ after.stream.op = "overlay"
                     \/ /\ after.pc = "update_failed"
                        /\ after.error = <<"logo">>
               /\ (call.pc = "music" /\ call.project.music_file # None)
                  => \/ /\ after.pc = "run"
                        /\ after.stream.audio = call.project.music_file
                     \/ /\ after.pc = "update_failed"
                        /\ after.error = <<"music">>
               /\ call.pc = "update_failed"
                  => /\ after.pc = "except"
                     /\ call.project_id \in DOMAIN db'
                        => db'[call.project_id].status = "failed"]_vars

\* The music could not be written, after the clips of several images were
\* composed and the logo overlaid: the pipeline has returned False.
C29_Witness ==
    \E c \in Calls :
        /\ gen[c].pc = "update_failed"
        /\ gen[c].error = <<"music">>
        /\ gen[c].project.logo_file # None
        /\ Len(gen[c].project.images) > 1
        /\ \E dir \in DOMAIN tmp : tmp[dir] = c

\* The output stream that the composition, overlay and output steps build from
\* the clips rendered by a call, for its project with logo_opacity set to o.
StreamWithOpacity(call, o) ==
    LET project == [call.project EXCEPT !.logo_opacity = o]
        video == Xfade(call.video_clips, Len(call.video_clips))
    IN Output(project, IF project.logo_file # None THEN Overlay(project, video) ELSE video)

\* C30: the stream a job hands to the encoder is the one it would have built
\* with any other logo_opacity in its project: two runs that differ in
\* logo_opacity alone, and render the same clips, build the same overlay and
\* output.
C30_OpacityIgnored ==
    \A c \in Calls :
        gen[c].pc \in EncodePcs
        => \A o \in RenderOpacities : gen[c].stream = StreamWithOpacity(gen[c], o)

C30_Witness ==
    \E c \in Calls :
        /\ gen[c].pc = "encode"
        /\ gen[c].project.logo_opacity # DefaultOpacity
        /\ gen[c].project.logo_file # None
        /\ gen[c].stream.video.op = "overlay"
        /\ gen[c].stream = StreamWithOpacity(gen[c], DefaultOpacity)

\* C31: a stored project in status completed has the video_url made of its id
\* and of the resolution it has now.
C31_UrlOfStoredResolution ==
    \A id \in DOMAIN db :
        db[id].status = "completed"
        => db[id].video_url = <<"/api/videos/", id, db[id].resolution, "mp4">>

\* C32: of a project that was deleted (an id issued and no longer stored) no
\* output file is left in the output directory, now or later.
C32_DeletionFinal ==
    \A id \in 1..next_id :
        ~Stored(id) => \A f \in DOMAIN outputs : f[1] # id

\* The positions of a call between its lookup and its return or raise.
AfterLookupPcs == {"set_processing"} \cup InFlightPcs

\* C33: from its lookup to its end a generate call keeps the project document
\* it read, whatever is uploaded or set meanwhile. Its output filename is made
\* from the resolution of that document and is kept; the images it renders,
\* the logo it overlays and the music it adds are those of that document; the
\* video_url it stores and returns is made of that filename.
C33_WorksOnSnapshot ==
    [][\A c \in Calls :
         LET call == gen[c]
             after == gen'[c]
         IN call.pc \in AfterLookupPcs
            => /\ after.pc # "done" => after.project = call.project
               /\ (call.pc # "set_processing" /\ after.pc # "done")
                  => after.output_filename = call.output_filename
               /\ (call.pc = "set_processing" /\ Moved(c))
                  => after.output_filename =
                        <<call.project_id, call.project.resolution, "mp4">>
               /\ (call.pc = "ken_burns" /\ Moved(c))
                  => (after.pc = "compose" <=> after.i = Len(call.project.images))
               /\ (call.pc = "logo" /\ after.pc = "music")
                  => (after.stream.op = "overlay" <=> call.project.logo_file # None)
               /\ (call.pc = "music" /\ after.pc = "run")
                  => after.stream.audio = call.project.music_file
               /\ (call.pc = "update_completed" /\ Moved(c))
                  => /\ after.body.video_url = <<"/api/videos/">> \o call.output_filename
                     /\ call.project_id \in DOMAIN db'
                        => db'[call.project_id].video_url = after.body.video_url]_vars

\* A call has rendered and is about to store its video_url, while the stored
\* project has by now a resolution that the call did not read.
C33_Witness ==
    \E c \in Calls :
        /\ gen[c].pc = "update_completed"
        /\ Stored(gen[c].project_id)
        /\ db[gen[c].project_id].resolution # gen[c].project.resolution
        /\ gen[c].output_filename =
              <<gen[c].project_id, gen[c].project.resolution, "mp4">>

\* C34: an upload of images to a stored project with a file of a content type
\* that is not allowed is answered 400 and leaves the stored images as they
\* are; any other upload is answered 200 and makes the stored images the
\* uploaded files in their order, whatever was stored before.
C34_AllOrNothingReplace ==
    \A id \in DOMAIN db, files \in AnyFileInputs :
        LET reply == UploadImagesReply(id, files)
        IN IF \E i \in DOMAIN files : files[i].content_type \notin AllowedContentTypes
           THEN reply.code = 400 /\ reply.db = db
           ELSE /\ reply.code = 200
                /\ reply.db[id].images = [i \in DOMAIN files |-> files[i].content]
                /\ \A other \in DOMAIN db \ {id} : reply.db[other] = db[other]

====
